---- MODULE Spec2Model ----
(***************************************************************************)
(* The Windows C-API registration shim of flutter_mcp_server:             *)
(*                                                                         *)
(*   void FlutterMcpServerPluginCApiRegisterWithRegistrar(                 *)
(*       FlutterDesktopPluginRegistrarRef registrar) {                     *)
(*     flutter_mcp_server::FlutterMcpServerPlugin::RegisterWithRegistrar(  *)
(*         flutter::PluginRegistrarManager::GetInstance()                  *)
(*             ->GetRegistrar<flutter::PluginRegistrarWindows>(registrar));*)
(*   }                                                                     *)
(*                                                                         *)
(* One call of the entry point is a sequence of steps of the calling       *)
(* thread, in the order C++ evaluates the expression: GetInstance(),       *)
(* ->GetRegistrar(), the invocation of RegisterWithRegistrar with the      *)
(* value obtained, the run of that method's body, and the return.  The     *)
(* registrar manager and the plugin class are collaborators whose bodies   *)
(* are not in the file; their effects are modelled from the                *)
(* specification's description of them.                                    *)
(***************************************************************************)
EXTENDS Naturals, Sequences, FiniteSets

\* ---------------------------------------------------------------- bounds
NumHandles == 2
MaxCalls == 2

\* Two threads of the host: enough for two calls to interleave.
Threads == {1, 2}
Handles == 1..NumHandles

\* ------------------------------------------------------- program constants
\* The null value of the opaque FlutterDesktopPluginRegistrarRef.
NullRef == 0
\* The manager singleton's pointer before its lazy creation.
NullManager == 0

Refs == Handles \cup {NullRef}

\* A typed registrar object (PluginRegistrarWindows*): the manager that owns
\* it and the opaque reference it wraps.
NullObject == [mgr |-> NullManager, wraps |-> NullRef]
TypedRegistrar(m, r) == [mgr |-> m, wraps |-> r]

VARIABLES
  pc,              \* position of each thread in the entry point
  registrar,       \* the entry point's parameter, per call in progress
  manager,         \* what GetInstance() returned to the call
  typed,           \* what GetRegistrar<>() returned to the call
  trace,           \* collaborator calls made by the call, in order
  live,            \* the handles the host engine currently owns
  instance,        \* PluginRegistrarManager's singleton pointer
  managersCreated, \* manager objects ever constructed
  registrars_,     \* typed registrar objects the managers hold
  invocations,     \* every RegisterWithRegistrar invocation, in order
  plugins,         \* plugin instances attached, each by its registrar
  started,         \* calls of the entry point begun
  completed,       \* calls that have returned, counted per reference
  crashed          \* the process faulted inside the host engine

vars == <<pc, registrar, manager, typed, trace, live, instance,
          managersCreated, registrars_, invocations, plugins,
          started, completed, crashed>>

Event(op, m, r, o) == [op |-> op, mgr |-> m, ref |-> r, obj |-> o]

\* The collaborator calls of one complete call, in evaluation order.
ShimOrder == <<"GetInstance", "GetRegistrar", "RegisterWithRegistrar">>

Ops(t) == [i \in 1..Len(trace[t]) |-> trace[t][i].op]

RECURSIVE CountIn(_, _)
CountIn(s, x) ==
  IF s = <<>> THEN 0
  ELSE (IF Head(s) = x THEN 1 ELSE 0) + CountIn(Tail(s), x)

\* Plugin instances attached to typed registrar o.
PluginCount(o) == CountIn(plugins, o)

\* RegisterWithRegistrar invocations that received typed registrar o.
InvocationCount(o) ==
  CountIn([i \in 1..Len(invocations) |-> invocations[i].obj], o)

\* The events of thread t's call that are calls of collaborator op.
EventsOf(t, op) ==
  LET IsOp(e) == e.op = op IN SelectSeq(trace[t], IsOp)

RECURSIVE SumCompleted(_)
SumCompleted(S) ==
  IF S = {} THEN 0
  ELSE LET r == CHOOSE x \in S : TRUE
       IN completed[r] + SumCompleted(S \ {r})

\* Calls of the entry point that have returned.
Returned == SumCompleted(Refs)

\* Threads whose call is at or past the invocation of RegisterWithRegistrar.
PastInvocation == {t \in Threads : pc[t] \in {"inRegister", "registered"}}

Init ==
  /\ pc = [t \in Threads |-> "idle"]
  /\ registrar = [t \in Threads |-> NullRef]
  /\ manager = [t \in Threads |-> NullManager]
  /\ typed = [t \in Threads |-> NullObject]
  /\ trace = [t \in Threads |-> <<>>]
  /\ live = {}
  /\ instance = NullManager
  /\ managersCreated = 0
  /\ registrars_ = {}
  /\ invocations = <<>>
  /\ plugins = <<>>
  /\ started = 0
  /\ completed = [r \in Refs |-> 0]
  /\ crashed = FALSE

\* The host engine creates a registrar handle.
EngineCreateRegistrar(h) ==
  /\ ~crashed
  /\ h \notin live
  /\ live' = live \cup {h}
  /\ UNCHANGED <<pc, registrar, manager, typed, trace, instance,
                 managersCreated, registrars_, invocations, plugins,
                 started, completed, crashed>>

\* The host calls the entry point with reference r.
Call(t, r) ==
  /\ ~crashed
  /\ pc[t] \in {"idle", "returned"}
  /\ started < MaxCalls
  /\ pc' = [pc EXCEPT ![t] = "entered"]
  /\ registrar' = [registrar EXCEPT ![t] = r]
  /\ manager' = [manager EXCEPT ![t] = NullManager]
  /\ typed' = [typed EXCEPT ![t] = NullObject]
  /\ trace' = [trace EXCEPT ![t] = <<>>]
  /\ started' = started + 1
  /\ UNCHANGED <<live, instance, managersCreated, registrars_,
                 invocations, plugins, completed, crashed>>

\* PluginRegistrarManager::GetInstance(): the singleton, created on first use.
ManagerGetInstance ==
  IF instance = NullManager THEN managersCreated + 1 ELSE instance

\* Variant: the shim constructs a manager of its own on every call.
GetInstanceFresh(t) ==
  /\ ~crashed
  /\ pc[t] = "entered"
  /\ instance' = managersCreated + 1
  /\ managersCreated' = managersCreated + 1
  /\ manager' = [manager EXCEPT ![t] = managersCreated + 1]
  /\ trace' = [trace EXCEPT ![t] =
       Append(@, Event("GetInstance", managersCreated + 1, NullRef, NullObject))]
  /\ pc' = [pc EXCEPT ![t] = "haveManager"]
  /\ UNCHANGED <<registrar, typed, live, registrars_, invocations, plugins,
                 started, completed, crashed>>

\* Variant: the shim checks the reference and returns early on null.
GetInstanceChecked(t) ==
  /\ ~crashed
  /\ pc[t] = "entered"
  /\ IF registrar[t] = NullRef
     THEN /\ pc' = [pc EXCEPT ![t] = "returned"]
          /\ completed' = [completed EXCEPT ![registrar[t]] = @ + 1]
          /\ UNCHANGED <<instance, managersCreated, manager, trace>>
     ELSE /\ instance' = ManagerGetInstance
          /\ managersCreated' =
               IF instance = NullManager THEN managersCreated + 1
               ELSE managersCreated
          /\ manager' = [manager EXCEPT ![t] = ManagerGetInstance]
          /\ trace' = [trace EXCEPT ![t] =
               Append(@, Event("GetInstance", ManagerGetInstance, NullRef,
                               NullObject))]
          /\ pc' = [pc EXCEPT ![t] = "haveManager"]
          /\ UNCHANGED completed
  /\ UNCHANGED <<registrar, typed, live, registrars_, invocations, plugins,
                 started, crashed>>

\* Line 10: flutter::PluginRegistrarManager::GetInstance()
GetInstance(t) ==
  /\ ~crashed
  /\ pc[t] = "entered"
  /\ instance' = ManagerGetInstance
  /\ managersCreated' =
       IF instance = NullManager THEN managersCreated + 1 ELSE managersCreated
  /\ manager' = [manager EXCEPT ![t] = ManagerGetInstance]
  /\ trace' = [trace EXCEPT ![t] =
       Append(@, Event("GetInstance", ManagerGetInstance, NullRef, NullObject))]
  /\ pc' = [pc EXCEPT ![t] = "haveManager"]
  /\ UNCHANGED <<registrar, typed, live, registrars_, invocations, plugins,
                 started, completed, crashed>>

\* PluginRegistrarManager::GetRegistrar<T>(ref): the typed object manager m
\* holds for ref, created when m holds none yet.
ManagerGetRegistrar(m, r) == TypedRegistrar(m, r)

\* The lookup of reference r by thread t, as GetRegistrar below makes it.
LookupOf(t, r) ==
  /\ ~crashed
  /\ pc[t] = "haveManager"
  /\ \/ /\ registrars_' = registrars_ \cup {ManagerGetRegistrar(manager[t], r)}
        /\ typed' = [typed EXCEPT ![t] = ManagerGetRegistrar(manager[t], r)]
        /\ trace' = [trace EXCEPT ![t] =
             Append(@, Event("GetRegistrar", manager[t], r,
                             ManagerGetRegistrar(manager[t], r)))]
        /\ pc' = [pc EXCEPT ![t] = "haveRegistrar"]
        /\ UNCHANGED crashed
     \/ /\ r \notin live
        /\ crashed' = TRUE
        /\ UNCHANGED <<pc, typed, trace, registrars_>>
  /\ UNCHANGED <<registrar, manager, live, instance, managersCreated,
                 invocations, plugins, started, completed>>

\* Variant: the shim looks up a reference other than the one it was given.
GetRegistrarOther(t) == \E r \in Refs \ {registrar[t]} : LookupOf(t, r)

\* Variant: the shim keeps its parameter in a variable all calls share, so a
\* lookup may see the reference of another call in progress.
GetRegistrarShared(t) ==
  \E u \in Threads :
    /\ pc[u] \notin {"idle", "returned"}
    /\ LookupOf(t, registrar[u])

\* Line 11: ->GetRegistrar<flutter::PluginRegistrarWindows>(registrar)
\* The reference is passed on unchecked.  For a reference the engine does not
\* own (null, dangling) the lookup is undefined behaviour inside the engine:
\* it faults, or it goes on as for any other value.
GetRegistrar(t) == LookupOf(t, registrar[t])

\* Variant: the shim invokes the registration method twice.
RegisterWithRegistrarTwice(t) ==
  /\ ~crashed
  /\ pc[t] = "haveRegistrar"
  /\ invocations' = invocations \o <<[by |-> t, obj |-> typed[t]],
                                      [by |-> t, obj |-> typed[t]]>>
  /\ trace' = [trace EXCEPT ![t] =
       @ \o <<Event("RegisterWithRegistrar", manager[t], typed[t].wraps, typed[t]),
              Event("RegisterWithRegistrar", manager[t], typed[t].wraps, typed[t])>>]
  /\ pc' = [pc EXCEPT ![t] = "inRegister"]
  /\ UNCHANGED <<registrar, manager, typed, live, instance, managersCreated,
                 registrars_, plugins, started, completed, crashed>>

\* Variant: the registration method is invoked without waiting for the lookup.
RegisterWithRegistrarEarly(t) ==
  /\ ~crashed
  /\ pc[t] \in {"haveManager", "haveRegistrar"}
  /\ invocations' = Append(invocations, [by |-> t, obj |-> typed[t]])
  /\ trace' = [trace EXCEPT ![t] =
       Append(@, Event("RegisterWithRegistrar", manager[t], typed[t].wraps,
                       typed[t]))]
  /\ pc' = [pc EXCEPT ![t] = "inRegister"]
  /\ UNCHANGED <<registrar, manager, typed, live, instance, managersCreated,
                 registrars_, plugins, started, completed, crashed>>

\* Variant: the shim resolves the registrar and forgets to register.
RegisterWithRegistrarDropped(t) ==
  /\ ~crashed
  /\ pc[t] = "haveRegistrar"
  /\ pc' = [pc EXCEPT ![t] = "registered"]
  /\ UNCHANGED <<registrar, manager, typed, trace, live, instance,
                 managersCreated, registrars_, invocations, plugins, started,
                 completed, crashed>>

\* Variant: the shim guards against registering a registrar a second time.
RegisterWithRegistrarOnce(t) ==
  /\ ~crashed
  /\ pc[t] = "haveRegistrar"
  /\ IF InvocationCount(typed[t]) > 0
     THEN /\ pc' = [pc EXCEPT ![t] = "registered"]
          /\ UNCHANGED <<invocations, trace>>
     ELSE /\ invocations' = Append(invocations, [by |-> t, obj |-> typed[t]])
          /\ trace' = [trace EXCEPT ![t] =
               Append(@, Event("RegisterWithRegistrar", manager[t],
                               typed[t].wraps, typed[t]))]
          /\ pc' = [pc EXCEPT ![t] = "inRegister"]
  /\ UNCHANGED <<registrar, manager, typed, live, instance, managersCreated,
                 registrars_, plugins, started, completed, crashed>>

\* Line 9: FlutterMcpServerPlugin::RegisterWithRegistrar(<typed registrar>)
\* is invoked; control is inside the plugin's method.
RegisterWithRegistrar(t) ==
  /\ ~crashed
  /\ pc[t] = "haveRegistrar"
  /\ invocations' = Append(invocations, [by |-> t, obj |-> typed[t]])
  /\ trace' = [trace EXCEPT ![t] =
       Append(@, Event("RegisterWithRegistrar", manager[t], typed[t].wraps,
                       typed[t]))]
  /\ pc' = [pc EXCEPT ![t] = "inRegister"]
  /\ UNCHANGED <<registrar, manager, typed, live, instance, managersCreated,
                 registrars_, plugins, started, completed, crashed>>

\* The body of FlutterMcpServerPlugin::RegisterWithRegistrar: a plugin
\* instance is constructed and attached to the registrar it was given.
PluginRegister(t) ==
  /\ ~crashed
  /\ pc[t] = "inRegister"
  /\ plugins' = Append(plugins, trace[t][Len(trace[t])].obj)
  /\ pc' = [pc EXCEPT ![t] = "registered"]
  /\ UNCHANGED <<registrar, manager, typed, trace, live, instance,
                 managersCreated, registrars_, invocations, started,
                 completed, crashed>>

\* Variant: the shim releases the handle it was given before returning.
ReturnReleasing(t) ==
  /\ ~crashed
  /\ pc[t] = "registered"
  /\ pc' = [pc EXCEPT ![t] = "returned"]
  /\ completed' = [completed EXCEPT ![registrar[t]] = @ + 1]
  /\ live' = live \ {registrar[t]}
  /\ UNCHANGED <<registrar, manager, typed, trace, instance,
                 managersCreated, registrars_, invocations, plugins,
                 started, crashed>>

\* Variant: the registration is started asynchronously and the entry point
\* returns without waiting for it.
ReturnEarly(t) ==
  /\ ~crashed
  /\ pc[t] \in {"inRegister", "registered"}
  /\ pc' = [pc EXCEPT ![t] = "returned"]
  /\ completed' = [completed EXCEPT ![registrar[t]] = @ + 1]
  /\ UNCHANGED <<registrar, manager, typed, trace, live, instance,
                 managersCreated, registrars_, invocations, plugins,
                 started, crashed>>

\* Line 12: the entry point returns (void).
Return(t) ==
  /\ ~crashed
  /\ pc[t] = "registered"
  /\ pc' = [pc EXCEPT ![t] = "returned"]
  /\ completed' = [completed EXCEPT ![registrar[t]] = @ + 1]
  /\ UNCHANGED <<registrar, manager, typed, trace, live, instance,
                 managersCreated, registrars_, invocations, plugins,
                 started, crashed>>

\* Lines 7-12: one step of a call of the entry point by thread t.
FlutterMcpServerPluginCApiRegisterWithRegistrar(t) ==
  \/ GetInstance(t)
  \/ GetRegistrar(t)
  \/ RegisterWithRegistrar(t)
  \/ PluginRegister(t)
  \/ Return(t)

Next ==
  \/ \E h \in Handles : EngineCreateRegistrar(h)
  \/ \E t \in Threads, r \in Refs : Call(t, r)
  \/ \E t \in Threads : GetInstance(t)
  \/ \E t \in Threads : GetRegistrar(t)
  \/ \E t \in Threads : RegisterWithRegistrar(t)
  \/ \E t \in Threads : PluginRegister(t)
  \/ \E t \in Threads : Return(t)

Spec == Init /\ [][Next]_vars

\* Once entered, a call's steps are taken: the body is straight-line code
\* that waits for nothing, and the collaborators it calls return (or, for
\* the lookup of a reference the engine does not own, fault).
FairSpec ==
  /\ Spec
  /\ \A t \in Threads : WF_vars(FlutterMcpServerPluginCApiRegisterWithRegistrar(t))

\* ------------------------------------------------------------- properties

\* s is an initial segment of q.
IsPrefix(s, q) ==
  /\ Len(s) <= Len(q)
  /\ \A i \in 1..Len(s) : s[i] = q[i]

\* C1: a call made with a valid reference r has, when it has returned,
\* invoked RegisterWithRegistrar exactly once, and the typed registrar it
\* passed is the one the manager's lookup returned for r itself.
C1_OneInvocationWithOwnRegistrar ==
  \A t \in Threads :
    (pc[t] = "returned" /\ registrar[t] \in live) =>
      LET inv == EventsOf(t, "RegisterWithRegistrar")
          look == EventsOf(t, "GetRegistrar")
      IN /\ Len(inv) = 1
         /\ \E i \in 1..Len(look) :
              /\ look[i].ref = registrar[t]
              /\ look[i].obj = inv[1].obj
         /\ inv[1].obj.wraps = registrar[t]

\* A call with a valid reference has returned while the manager also holds
\* the typed registrar of a different reference.
C1_Witness ==
  \E t \in Threads :
    /\ pc[t] = "returned"
    /\ registrar[t] \in live
    /\ \E o \in registrars_ : o.wraps # registrar[t] /\ o.wraps \in live

\* C2: a call acts only through its one lookup and its one invocation: a
\* returned call has made exactly the three collaborator calls, no step adds
\* more than one invocation or one typed registrar, and no step changes the
\* invocations or plugins of a registrar other than the stepping call's own.
C2_NoOtherEffect ==
  /\ [](\A t \in Threads : pc[t] = "returned" => Len(trace[t]) = 3)
  /\ [][\A t \in Threads :
          pc'[t] # pc[t] =>
            /\ Len(invocations') <= Len(invocations) + 1
            /\ Len(plugins') <= Len(plugins) + 1
            /\ registrars_' \subseteq
                 registrars_ \cup {TypedRegistrar(manager[t], registrar[t])}
            /\ \A o \in registrars_' :
                 o.wraps # registrar'[t] =>
                   /\ CountIn(plugins', o) = CountIn(plugins, o)
                   /\ InvocationCount(o)' = InvocationCount(o)
            /\ pc[t] # "haveRegistrar" => invocations' = invocations
            /\ pc[t] # "inRegister" => plugins' = plugins]_vars

\* Two different registrars each have a plugin attached.
C2_Witness ==
  \E o1, o2 \in registrars_ :
    /\ o1 # o2
    /\ PluginCount(o1) = 1
    /\ PluginCount(o2) = 1

\* C3: the collaborator calls of a call are always an initial segment of
\* GetInstance, GetRegistrar, RegisterWithRegistrar; the lookup is made on
\* the manager GetInstance returned, and RegisterWithRegistrar receives the
\* value the completed lookup returned.
C3_FixedOrder ==
  \A t \in Threads :
    /\ IsPrefix(Ops(t), ShimOrder)
    /\ Len(trace[t]) >= 1 => trace[t][1].mgr # NullManager
    /\ Len(trace[t]) >= 2 => trace[t][2].mgr = trace[t][1].mgr
    /\ Len(trace[t]) >= 3 => trace[t][3].obj = trace[t][2].obj

\* A call is inside RegisterWithRegistrar with all three calls made, and it
\* was the call that created the manager.
C3_Witness ==
  \E t \in Threads :
    /\ pc[t] = "inRegister"
    /\ Ops(t) = ShimOrder
    /\ Returned = 0

\* C4: once a call with a valid reference r has returned, the typed
\* registrar of r has a plugin instance attached, in every later state.
C4_AttachedAfterReturn ==
  \A r \in Handles :
    (completed[r] > 0 /\ r \in live) =>
      PluginCount(TypedRegistrar(instance, r)) >= 1

\* A call with a valid reference returned, and a further call returned too.
C4_Witness ==
  \E r \in live :
    /\ completed[r] >= 1
    /\ Returned >= 2
    /\ PluginCount(TypedRegistrar(instance, r)) >= 1

\* C5: there is never more than one registrar manager; every call resolves
\* its reference through that one instance, which holds every typed
\* registrar.
C5_OneManager ==
  /\ managersCreated <= 1
  /\ (instance # NullManager) = (managersCreated = 1)
  /\ \A t \in Threads :
       \A i \in 1..Len(trace[t]) : trace[t][i].mgr = instance
  /\ \A o \in registrars_ : o.mgr = instance

\* Two calls have returned and both were resolved by the one manager.
C5_Witness ==
  /\ managersCreated = 1
  /\ Returned = 2
  /\ Cardinality(registrars_) = 2

\* C6: no step of a call changes the set of handles the engine owns or the
\* reference the call was given, and the reference the lookup receives is
\* the one the caller supplied.
C6_HandleUntouched ==
  /\ [](\A t \in Threads :
          \A i \in 1..Len(trace[t]) :
            trace[t][i].op = "GetRegistrar" =>
              trace[t][i].ref = registrar[t])
  /\ [][/\ (\E t \in Threads : pc'[t] # pc[t]) => live' = live
        /\ \A t \in Threads :
             pc[t] \notin {"idle", "returned"} =>
               registrar'[t] = registrar[t]]_vars

\* A call with a live handle has returned and every handle is still live.
C6_Witness ==
  \E t \in Threads :
    /\ pc[t] = "returned"
    /\ registrar[t] \in live
    /\ live = Handles

\* C7: whatever reference it is given, valid or not, a call that returns has
\* made the lookup and then the invocation; no call is turned away, and a
\* call in progress always has its next step to take.
C7_NoRejection ==
  \A t \in Threads :
    /\ pc[t] = "returned" => Ops(t) = ShimOrder
    /\ (pc[t] \in {"entered", "haveManager", "haveRegistrar"} /\ ~crashed) =>
         ENABLED (GetInstance(t) \/ GetRegistrar(t) \/ RegisterWithRegistrar(t))
    /\ pc[t] \in {"haveRegistrar", "inRegister", "registered", "returned"} =>
         typed[t].wraps = registrar[t]

\* A call given the null reference went through lookup and registration.
C7_Witness ==
  \E t \in Threads :
    /\ pc[t] = "returned"
    /\ registrar[t] = NullRef
    /\ Ops(t) = ShimOrder

\* C8: every call that is entered returns, unless the engine faults in the
\* lookup; when it has returned, the invocation it made has completed (no
\* invocation is outstanding except those of calls still inside it), and a
\* call makes no more than its three collaborator calls.
C8_Synchronous ==
  /\ \A t \in Threads :
       (pc[t] = "entered") ~> (pc[t] = "returned" \/ crashed)
  /\ [](/\ Len(invocations) =
             Len(plugins) + Cardinality({t \in Threads : pc[t] = "inRegister"})
        /\ \A t \in Threads :
             /\ Len(trace[t]) <= 3
             /\ pc[t] = "returned" => PluginCount(typed[t]) >= 1)

\* A call has returned and no invocation is outstanding.
C8_Witness ==
  \E t \in Threads :
    /\ pc[t] = "returned"
    /\ Len(plugins) = Len(invocations)
    /\ Len(plugins) >= 1

\* C9: the number of RegisterWithRegistrar invocations equals the number of
\* calls that have reached the invocation, in total and per registrar; a
\* second call with the same reference invokes it a second time.
C9_OneInvocationPerCall ==
  /\ Len(invocations) = Returned + Cardinality(PastInvocation)
  /\ \A o \in registrars_ :
       InvocationCount(o) =
         completed[o.wraps]
           + Cardinality({t \in PastInvocation : typed[t] = o})

\* Two calls with the same valid reference have returned and the
\* registration method was invoked twice with its registrar.
C9_Witness ==
  \E o \in registrars_ :
    /\ o.wraps \in live
    /\ completed[o.wraps] = 2
    /\ InvocationCount(o) = 2

\* C10: when two calls interleave, a step of one call leaves the other
\* call's reference, manager, typed registrar and collaborator calls as they
\* were; each call that is past its invocation has made one lookup and then
\* one invocation, both for its own reference; and the manager singleton is
\* written only by a call's GetInstance step.
C10_Interleaved ==
  /\ [](\A t \in Threads :
          pc[t] \in {"inRegister", "registered", "returned"} =>
            /\ Len(EventsOf(t, "GetRegistrar")) = 1
            /\ Len(EventsOf(t, "RegisterWithRegistrar")) = 1
            /\ trace[t][2].op = "GetRegistrar"
            /\ trace[t][2].ref = registrar[t]
            /\ trace[t][3].obj = TypedRegistrar(instance, registrar[t]))
  /\ [][/\ \A u \in Threads :
             pc'[u] = pc[u] =>
               /\ registrar'[u] = registrar[u]
               /\ manager'[u] = manager[u]
               /\ typed'[u] = typed[u]
               /\ trace'[u] = trace[u]
        /\ (instance' # instance \/ managersCreated' # managersCreated) =>
             \E t \in Threads : pc[t] = "entered" /\ pc'[t] = "haveManager"]_vars

\* Two calls with different references overlapped: the second to be invoked
\* was the first to have its plugin attached, and both have returned.
C10_Witness ==
  /\ \A t \in Threads : pc[t] = "returned"
  /\ Len(invocations) = 2
  /\ Len(plugins) = 2
  /\ invocations[1].obj # invocations[2].obj
  /\ invocations[1].by # invocations[2].by
  /\ plugins[1] = invocations[2].obj

====
